---- MODULE Spec2Model ----
(***************************************************************************)
(* Model of src/app/app.py: a Flask service with Prometheus counters, a    *)
(* log emitter, a background monitor thread and a toggleable stress test.  *)
(*                                                                         *)
(* Strings that the program parses or re-cases (the status code, the log   *)
(* level) are sequences of one-character strings; strings it only passes   *)
(* on (action names, log messages) are TLA+ strings.                       *)
(***************************************************************************)
EXTENDS Integers, Sequences, FiniteSets, TLC

VARIABLES
    stress_test_active,  \* app.py:35   module global, the stress flag
    HTTP_CODE_COUNTER,   \* app.py:20   label value -> count
    USER_ACTIONS,        \* app.py:21   label value -> count
    UPTIME_GAUGE,        \* app.py:22   gauge value
    start_time,          \* app.py:34
    clock,               \* last value returned by time.time()
    stdout,              \* lines written by the logging StreamHandler
    wpc,                 \* position of monitor_worker
    c,                   \* monitor_worker local (app.py:47)
    a,                   \* monitor_worker local (app.py:48)
    rand_val,            \* monitor_worker local (app.py:53)
    pc,                  \* position of each request thread
    local,               \* the handler's local: code_val / act_name / loaded flag
    resp,                \* the response the handler returned
    hist                 \* history: counts of what has been issued so far

vars == <<stress_test_active, HTTP_CODE_COUNTER, USER_ACTIONS, UPTIME_GAUGE,
          start_time, clock, stdout, wpc, c, a, rand_val, pc, local, resp, hist>>

----------------------------------------------------------------------------
(* Bounds of the model *)

NumThreads == 2   \* request threads of the server
MaxReqs == 2      \* requests accepted in one run
MaxToggles == 3   \* toggle requests of the sequential client
MaxTicks == 1     \* ticks of the stress generator in one run
MaxTime == 2      \* last value of the clock
ProcessStart == 1 \* the clock when the module is imported

Threads == 1..NumThreads

----------------------------------------------------------------------------
(* Strings *)

S1(x) == <<x>>
S2(x, y) == <<x, y>>
S3(x, y, z) == <<x, y, z>>

ALL_CODES == << S3("1","0","0"), S3("1","0","1"), S3("2","0","0"), S3("2","0","1"),
                S3("3","0","1"), S3("3","0","4"), S3("4","0","3"), S3("4","0","4"),
                S3("5","0","0"), S3("5","0","3") >>

ALL_ACTIONS == << "register", "login", "reset_pass", "delete_acc" >>

Range(s) == { s[i] : i \in DOMAIN s }

----------------------------------------------------------------------------
(* Python built-ins used by the handlers *)

\* dict.get(key, default) of request.args / request.form
Get(d, k, default) == IF k \in DOMAIN d THEN d[k] ELSE default

Letters ==
    << <<"a","A">>, <<"b","B">>, <<"c","C">>, <<"d","D">>, <<"e","E">>, <<"f","F">>,
       <<"g","G">>, <<"h","H">>, <<"i","I">>, <<"j","J">>, <<"k","K">>, <<"l","L">>,
       <<"m","M">>, <<"n","N">>, <<"o","O">>, <<"p","P">>, <<"q","Q">>, <<"r","R">>,
       <<"s","S">>, <<"t","T">>, <<"u","U">>, <<"v","V">>, <<"w","W">>, <<"x","X">>,
       <<"y","Y">>, <<"z","Z">> >>

LowerChar(ch) ==
    IF \E i \in DOMAIN Letters : Letters[i][2] = ch
    THEN Letters[CHOOSE i \in DOMAIN Letters : Letters[i][2] = ch][1]
    ELSE ch

UpperChar(ch) ==
    IF \E i \in DOMAIN Letters : Letters[i][1] = ch
    THEN Letters[CHOOSE i \in DOMAIN Letters : Letters[i][1] = ch][2]
    ELSE ch

\* str.lower() and str.upper()
Lower(s) == [i \in DOMAIN s |-> LowerChar(s[i])]
Upper(s) == [i \in DOMAIN s |-> UpperChar(s[i])]

Digits == <<"0","1","2","3","4","5","6","7","8","9">>
IsDigit(ch) == \E i \in DOMAIN Digits : Digits[i] = ch
DigitVal(ch) == (CHOOSE i \in DOMAIN Digits : Digits[i] = ch) - 1
IsSpace(ch) == ch \in {" ", "\t", "\n"}

RECURSIVE LStrip(_)
LStrip(s) == IF s # <<>> /\ IsSpace(Head(s)) THEN LStrip(Tail(s)) ELSE s

RECURSIVE RStrip(_)
RStrip(s) ==
    IF s # <<>> /\ IsSpace(s[Len(s)]) THEN RStrip(SubSeq(s, 1, Len(s) - 1)) ELSE s

ValueError == [ok |-> FALSE, val |-> 0]

\* digit (["_"] digit)* : the digits of a decimal integer literal
RECURSIVE ParseDigits(_, _, _)
ParseDigits(s, acc, afterDigit) ==
    IF s = <<>>
    THEN IF afterDigit THEN [ok |-> TRUE, val |-> acc] ELSE ValueError
    ELSE IF IsDigit(Head(s))
         THEN ParseDigits(Tail(s), acc * 10 + DigitVal(Head(s)), TRUE)
         ELSE IF Head(s) = "_" /\ afterDigit
              THEN ParseDigits(Tail(s), acc, FALSE)
              ELSE ValueError

\* int(str): surrounding whitespace, an optional sign, decimal digits
int(s) ==
    LET t == RStrip(LStrip(s))
        neg == t # <<>> /\ Head(t) = "-"
        body == IF t # <<>> /\ Head(t) \in {"+", "-"} THEN Tail(t) ELSE t
        r == ParseDigits(body, 0, FALSE)
    IN  IF r.ok /\ neg THEN [ok |-> TRUE, val |-> 0 - r.val] ELSE r

----------------------------------------------------------------------------
(* prometheus_client: a labelled Counter is a map label value -> count.    *)
(* labels() and inc() each run under the metric's lock.                    *)

NoSeries == [l \in {} |-> 0]

\* Counter.labels(l): the child of l, created at 0 on first use
labels(m, l) == IF l \in DOMAIN m THEN m ELSE m @@ (l :> 0)

\* an increment that drops a label value that has no series yet
incKnownOnly(m, l, amount) ==
    IF l \in DOMAIN m THEN [m EXCEPT ![l] = @ + amount] ELSE m

\* an increment with the sign of the amount reversed
incDown(m, l, amount) == [labels(m, l) EXCEPT ![l] = @ - amount]

\* an increment that overwrites the count instead of adding to it
incOverwrite(m, l, amount) == [labels(m, l) EXCEPT ![l] = amount]

\* Counter.labels(l).inc(amount)
inc(m, l, amount) == [labels(m, l) EXCEPT ![l] = @ + amount]

\* no label value is registered ahead of its first use
PreRegisterNone(m, ls) == m

\* the loops of app.py:28-31
RECURSIVE PreRegister(_, _)
PreRegister(m, ls) ==
    IF ls = <<>> THEN m ELSE PreRegister(inc(m, Head(ls), 0), Tail(ls))

RECURSIVE SumOver(_, _)
SumOver(m, D) ==
    IF D = {} THEN 0
    ELSE LET l == CHOOSE x \in D : TRUE IN m[l] + SumOver(m, D \ {l})

\* the total over all series of a counter
Total(m) == SumOver(m, DOMAIN m)

\* generate_latest(): every series of every metric
generate_latest ==
    [codes |-> HTTP_CODE_COUNTER, actions |-> USER_ACTIONS, uptime |-> UPTIME_GAUGE]

----------------------------------------------------------------------------
(* Inputs of the requests and of the random draws *)

\* request.args of GET /status: with or without the parameter "code"
StatusArgs(Codes) ==
    { [k \in {} |-> <<>>] } \cup { [k \in {"code"} |-> s] : s \in Codes }

\* request.form of POST /action: with or without the field "action"
ActionForms(Actions) ==
    { [k \in {} |-> ""] } \cup { [k \in {"action"} |-> s] : s \in Actions }

\* request.form of POST /log with the fields of `has' present
LogForm(has, m, l) == [k \in has |-> IF k = "message" THEN m ELSE l]

MessageInputs == { "disk full" }

\* the inputs of the runs that interleave every handler with the worker
FewCodes == { S3("4","0","4"), S3("a","b","c") }
FewActions == { "login" }
FewLevels == { <<"e","r","r","o","r">>, <<"d","e","b","u","g">> }

\* the inputs of the runs of one handler
ManyCodes ==
    Range(ALL_CODES) \cup
    { S3("a","b","c"), <<>>, S3("9","9","9"), S1("0"), S2("-","1"), S2("4","a"),
      S3(" ","7","7"), <<"0","1","0","0">>, <<"2","_","0","0">>, <<"2","0","0","_">>,
      S1("+"), <<"+","2","0","4">>, S2("4","2") }
ManyActions == { "login", "delete_acc", "logout", "LOGIN", "unknown", "" }
ManyLevels ==
    { <<"e","r","r","o","r">>, <<"E","R","R","O","R">>, <<"W","a","r","n","i","n","g">>,
      <<"i","n","f","o">>, <<"I","n","f","o">>, <<"d","e","b","u","g">>,
      <<"c","r","i","t","i","c","a","l">>, <<>>, <<"e","r","r","o","r"," ">> }

\* random.random(), in hundredths
RandVals == { 0, 9, 10, 29, 30, 59, 60, 99 }

----------------------------------------------------------------------------
(* History, kept beside the program's state and never read by it:          *)
(*   reqs       requests accepted so far                                   *)
(*   ticks      ticks the stress generator has started                     *)
(*   toggles    calls of handle_stress that have returned; a toggle        *)
(*              response carries its rank among them (nth) and the value   *)
(*              its call stored (stored)                                   *)
(*   seen       the value of the flag the worker read in its last test     *)
(*   code       per label value, the increments issued to the code counter *)
(*   action     per label value, the increments issued to the action one   *)
(*   snapCode, snapAction   the counters' totals when the flag last went   *)
(*              from Idle to Active                                        *)

Tally(m, l) == IF l \in DOMAIN m THEN [m EXCEPT ![l] = @ + 1] ELSE m @@ (l :> 1)

----------------------------------------------------------------------------
(* Initial state: the module has been imported (app.py:9-66) *)

NoCode == <<>>
NoAction == ""
NoRand == -1
NoLocal == [kind |-> "none"]
NoResp == [op |-> "none"]

Init ==
    /\ stress_test_active = FALSE
    /\ HTTP_CODE_COUNTER = PreRegister(NoSeries, ALL_CODES)
    /\ USER_ACTIONS = PreRegister(NoSeries, ALL_ACTIONS)
    /\ UPTIME_GAUGE = 0
    /\ start_time = ProcessStart
    /\ clock = start_time
    /\ stdout = <<>>
    /\ wpc = "gauge"
    /\ c = NoCode
    /\ a = NoAction
    /\ rand_val = NoRand
    /\ pc = [t \in Threads |-> "idle"]
    /\ local = [t \in Threads |-> NoLocal]
    /\ resp = [t \in Threads |-> NoResp]
    /\ hist = [reqs |-> 0, ticks |-> 0, toggles |-> 0, seen |-> FALSE,
               code |-> NoSeries, action |-> NoSeries,
               snapCode |-> 0, snapAction |-> 0]

----------------------------------------------------------------------------
(* monitor_worker (app.py:37-63) *)

\* logging's level names, as the format string's %(levelname)s prints them
ERROR == <<"E","R","R","O","R">>
WARNING == <<"W","A","R","N","I","N","G">>
INFO == <<"I","N","F","O">>

\* logger.error / logger.warning / logger.info: one line on stdout
Emit(out, level, kind, msg, act, code) ==
    Append(out, [level |-> level, kind |-> kind, msg |-> msg, a |-> act, c |-> code])

\* time passes: time.time() does not decrease
Clock ==
    /\ clock < MaxTime
    /\ clock' = clock + 1
    /\ UNCHANGED <<stress_test_active, HTTP_CODE_COUNTER, USER_ACTIONS, UPTIME_GAUGE,
                   start_time, stdout, wpc, c, a, rand_val, pc, local, resp, hist>>

\* the time of day instead of the time since the start of the process
UptimeAbsolute(now, start) == now

\* app.py:42: time.time() - start_time
Uptime(now, start) == now - start

\* app.py:42
W_SetGauge ==
    /\ wpc = "gauge"
    /\ UPTIME_GAUGE' = Uptime(clock, start_time)
    /\ wpc' = "check"
    /\ UNCHANGED <<stress_test_active, HTTP_CODE_COUNTER, USER_ACTIONS, start_time,
                   clock, stdout, c, a, rand_val, pc, local, resp, hist>>

\* a generator that never runs, and one that runs whatever the flag says
StressBranchNever(flag) == FALSE
StressBranchAlways(flag) == TRUE

\* the branch of app.py:45
StressBranch(flag) == flag

\* app.py:45, 47-48: the test of the flag and, when it is set, the two choices
W_Check ==
    /\ wpc = "check"
    /\ IF StressBranch(stress_test_active)
       THEN /\ hist.ticks < MaxTicks
            /\ c' \in Range(ALL_CODES)
            /\ a' \in Range(ALL_ACTIONS)
            /\ wpc' = "inc_code"
            /\ hist' = [hist EXCEPT !.ticks = @ + 1, !.seen = stress_test_active]
       ELSE /\ wpc' = "sleep_idle"
            /\ hist' = [hist EXCEPT !.seen = stress_test_active]
            /\ UNCHANGED <<c, a>>
    /\ UNCHANGED <<stress_test_active, HTTP_CODE_COUNTER, USER_ACTIONS, UPTIME_GAUGE,
                   start_time, clock, stdout, rand_val, pc, local, resp>>

\* a tick that forgets the code counter
W_IncCodeSkipped ==
    /\ wpc = "inc_code"
    /\ wpc' = "inc_action"
    /\ UNCHANGED <<stress_test_active, HTTP_CODE_COUNTER, USER_ACTIONS, UPTIME_GAUGE,
                   start_time, clock, stdout, c, a, rand_val, pc, local, resp, hist>>

\* app.py:49
W_IncCode ==
    /\ wpc = "inc_code"
    /\ HTTP_CODE_COUNTER' = inc(HTTP_CODE_COUNTER, c, 1)
    /\ hist' = [hist EXCEPT !.code = Tally(@, c)]
    /\ wpc' = "inc_action"
    /\ UNCHANGED <<stress_test_active, USER_ACTIONS, UPTIME_GAUGE, start_time, clock,
                   stdout, c, a, rand_val, pc, local, resp>>

\* a tick that forgets the action counter
W_IncActionSkipped ==
    /\ wpc = "inc_action"
    /\ wpc' = "log"
    /\ UNCHANGED <<stress_test_active, HTTP_CODE_COUNTER, USER_ACTIONS, UPTIME_GAUGE,
                   start_time, clock, stdout, c, a, rand_val, pc, local, resp, hist>>

\* app.py:50
W_IncAction ==
    /\ wpc = "inc_action"
    /\ USER_ACTIONS' = inc(USER_ACTIONS, a, 1)
    /\ hist' = [hist EXCEPT !.action = Tally(@, a)]
    /\ wpc' = "log"
    /\ UNCHANGED <<stress_test_active, HTTP_CODE_COUNTER, UPTIME_GAUGE, start_time,
                   clock, stdout, c, a, rand_val, pc, local, resp>>

\* the three thresholds taken inclusively
StressLogShifted(out, r, act, code) ==
    IF r <= 10 THEN Emit(out, ERROR, "stress-critical", "", act, NoCode)
    ELSE IF r <= 30 THEN Emit(out, WARNING, "stress-slow", "", act, code)
    ELSE IF r <= 60 THEN Emit(out, INFO, "stress-success", "", act, NoCode)
    ELSE out

\* app.py:54-59
StressLog(out, r, act, code) ==
    IF r < 10 THEN Emit(out, ERROR, "stress-critical", "", act, NoCode)
    ELSE IF r < 30 THEN Emit(out, WARNING, "stress-slow", "", act, code)
    ELSE IF r < 60 THEN Emit(out, INFO, "stress-success", "", act, NoCode)
    ELSE out

\* app.py:53-59
W_Log ==
    /\ wpc = "log"
    /\ rand_val' \in RandVals
    /\ stdout' = StressLog(stdout, rand_val', a, c)
    /\ wpc' = "sleep_active"
    /\ UNCHANGED <<stress_test_active, HTTP_CODE_COUNTER, USER_ACTIONS, UPTIME_GAUGE,
                   start_time, clock, c, a, pc, local, resp, hist>>

\* app.py:61 and 63: time.sleep, then the next iteration
W_Sleep ==
    /\ wpc \in {"sleep_active", "sleep_idle"}
    /\ wpc' = "gauge"
    /\ c' = NoCode
    /\ a' = NoAction
    /\ rand_val' = NoRand
    /\ UNCHANGED <<stress_test_active, HTTP_CODE_COUNTER, USER_ACTIONS, UPTIME_GAUGE,
                   start_time, clock, stdout, pc, local, resp, hist>>

monitor_worker == W_SetGauge \/ W_Check \/ W_IncCode \/ W_IncAction \/ W_Log \/ W_Sleep

----------------------------------------------------------------------------
(* Request handlers (app.py:216-263), each run by a server thread *)

Accept(t, budget) ==
    /\ pc[t] = "idle"
    /\ hist.reqs < budget

Begin(t) == Accept(t, MaxReqs)

\* app.py:216-218
index(t) ==
    /\ Begin(t)
    /\ resp' = [resp EXCEPT ![t] = [op |-> "index", status |-> 200]]
    /\ pc' = [pc EXCEPT ![t] = "done"]
    /\ hist' = [hist EXCEPT !.reqs = @ + 1]
    /\ UNCHANGED <<stress_test_active, HTTP_CODE_COUNTER, USER_ACTIONS, UPTIME_GAUGE,
                   start_time, clock, stdout, wpc, c, a, rand_val, local>>

\* app.py:226-231: the level of the emitted line
LogLevel(log_lvl) ==
    IF log_lvl = <<"e","r","r","o","r">> THEN ERROR
    ELSE IF log_lvl = <<"w","a","r","n","i","n","g">> THEN WARNING
    ELSE INFO

\* app.py:233: the level named in the confirmation
SentAs(log_lvl) == Upper(log_lvl)

\* app.py:220-233
handle_log(t, Levels) ==
    /\ Begin(t)
    /\ \E has \in SUBSET {"message", "level"}, m \in MessageInputs, l \in Levels :
          LET form == LogForm(has, m, l)
              log_msg == Get(form, "message", "No message content")
              log_lvl == Lower(Get(form, "level", <<"i","n","f","o">>))
          IN  /\ stdout' = Emit(stdout, LogLevel(log_lvl), "manual", log_msg,
                                NoAction, NoCode)
              /\ resp' = [resp EXCEPT ![t] =
                            [op |-> "log", status |-> 200,
                             level |-> Get(form, "level", <<"i","n","f","o">>),
                             emitted |-> LogLevel(log_lvl),
                             text |-> "Success: Sent as {}", arg |-> SentAs(log_lvl)]]
    /\ pc' = [pc EXCEPT ![t] = "done"]
    /\ hist' = [hist EXCEPT !.reqs = @ + 1]
    /\ UNCHANGED <<stress_test_active, HTTP_CODE_COUNTER, USER_ACTIONS, UPTIME_GAUGE,
                   start_time, clock, wpc, c, a, rand_val, local>>

\* a handler that validates first and counts only what int() accepts
StatusIncValidated(t, Codes) ==
    /\ Begin(t)
    /\ \E args \in StatusArgs(Codes) :
          LET code_val == Get(args, "code", S3("2","0","0"))
          IN  /\ HTTP_CODE_COUNTER' = IF int(code_val).ok
                                      THEN inc(HTTP_CODE_COUNTER, code_val, 1)
                                      ELSE HTTP_CODE_COUNTER
              /\ hist' = [hist EXCEPT !.reqs = @ + 1, !.code = Tally(@, code_val)]
              /\ local' = [local EXCEPT ![t] = [kind |-> "code_val", code_val |-> code_val]]
    /\ pc' = [pc EXCEPT ![t] = "status"]
    /\ UNCHANGED <<stress_test_active, USER_ACTIONS, UPTIME_GAUGE, start_time, clock,
                   stdout, wpc, c, a, rand_val, resp>>

\* app.py:237-238
StatusInc(t, Codes) ==
    /\ Begin(t)
    /\ \E args \in StatusArgs(Codes) :
          LET code_val == Get(args, "code", S3("2","0","0"))
          IN  /\ HTTP_CODE_COUNTER' = inc(HTTP_CODE_COUNTER, code_val, 1)
              /\ hist' = [hist EXCEPT !.reqs = @ + 1, !.code = Tally(@, code_val)]
              /\ local' = [local EXCEPT ![t] = [kind |-> "code_val", code_val |-> code_val]]
    /\ pc' = [pc EXCEPT ![t] = "status"]
    /\ UNCHANGED <<stress_test_active, USER_ACTIONS, UPTIME_GAUGE, start_time, clock,
                   stdout, wpc, c, a, rand_val, resp>>

\* a handler that answers every integer with 200
StatusResultAlways200(code_val) ==
    IF int(code_val).ok
    THEN [text |-> "HTTP {} recorded", arg |-> code_val, status |-> 200]
    ELSE [text |-> "Invalid code", arg |-> <<>>, status |-> 400]

\* a handler without the special case of app.py:241-242
StatusResultNoSpecialCase(code_val) ==
    IF int(code_val).ok
    THEN [text |-> "HTTP {} recorded", arg |-> code_val, status |-> int(code_val).val]
    ELSE [text |-> "Invalid code", arg |-> <<>>, status |-> 400]

\* app.py:241-247: the (body, status) pair handle_status returns
StatusResult(code_val) ==
    IF code_val \in { S3("1","0","0"), S3("1","0","1"), S3("3","0","4") }
    THEN [text |-> "HTTP {} recorded", arg |-> code_val, status |-> 200]
    ELSE IF int(code_val).ok
         THEN [text |-> "HTTP {} recorded", arg |-> code_val, status |-> int(code_val).val]
         ELSE [text |-> "Invalid code", arg |-> <<>>, status |-> 400]

\* app.py:241-247
StatusReturn(t) ==
    /\ pc[t] = "status"
    /\ LET r == StatusResult(local[t].code_val)
       IN  resp' = [resp EXCEPT ![t] =
                      [op |-> "status", code |-> local[t].code_val,
                       status |-> r.status, text |-> r.text, arg |-> r.arg]]
    /\ pc' = [pc EXCEPT ![t] = "done"]
    /\ UNCHANGED <<stress_test_active, HTTP_CODE_COUNTER, USER_ACTIONS, UPTIME_GAUGE,
                   start_time, clock, stdout, wpc, c, a, rand_val, local, hist>>

\* app.py:251-252
ActionInc(t, Actions) ==
    /\ Begin(t)
    /\ \E form \in ActionForms(Actions) :
          LET act_name == Get(form, "action", "unknown")
          IN  /\ USER_ACTIONS' = inc(USER_ACTIONS, act_name, 1)
              /\ hist' = [hist EXCEPT !.reqs = @ + 1, !.action = Tally(@, act_name)]
              /\ local' = [local EXCEPT ![t] = [kind |-> "act_name", act_name |-> act_name]]
    /\ pc' = [pc EXCEPT ![t] = "action"]
    /\ UNCHANGED <<stress_test_active, HTTP_CODE_COUNTER, UPTIME_GAUGE, start_time,
                   clock, stdout, wpc, c, a, rand_val, resp>>

\* app.py:253
ActionReturn(t) ==
    /\ pc[t] = "action"
    /\ resp' = [resp EXCEPT ![t] =
                  [op |-> "action", status |-> 200,
                   text |-> "Business Action '{}' tracked", arg |-> local[t].act_name]]
    /\ pc' = [pc EXCEPT ![t] = "done"]
    /\ UNCHANGED <<stress_test_active, HTTP_CODE_COUNTER, USER_ACTIONS, UPTIME_GAUGE,
                   start_time, clock, stdout, wpc, c, a, rand_val, local, hist>>

\* app.py:258, right-hand side: the flag is loaded
StressLoad(t, budget) ==
    /\ Accept(t, budget)
    /\ local' = [local EXCEPT ![t] = [kind |-> "loaded", flag |-> stress_test_active]]
    /\ pc' = [pc EXCEPT ![t] = "stress_store"]
    /\ hist' = [hist EXCEPT !.reqs = @ + 1]
    /\ UNCHANGED <<stress_test_active, HTTP_CODE_COUNTER, USER_ACTIONS, UPTIME_GAUGE,
                   start_time, clock, stdout, wpc, c, a, rand_val, resp>>

\* a toggle that switches the generator on and never off
ToggledOn(flag) == TRUE

\* app.py:258: not stress_test_active
Toggled(flag) == ~flag

\* app.py:258, assignment: the negation of the loaded value is stored
StressStore(t) ==
    /\ pc[t] = "stress_store"
    /\ stress_test_active' = Toggled(local[t].flag)
    /\ local' = [local EXCEPT ![t] = [kind |-> "stored", flag |-> Toggled(local[t].flag)]]
    /\ pc' = [pc EXCEPT ![t] = "stress_return"]
    /\ hist' = IF ~stress_test_active /\ stress_test_active'
               THEN [hist EXCEPT !.snapCode = Total(HTTP_CODE_COUNTER),
                                 !.snapAction = Total(USER_ACTIONS)]
               ELSE hist
    /\ UNCHANGED <<HTTP_CODE_COUNTER, USER_ACTIONS, UPTIME_GAUGE, start_time, clock,
                   stdout, wpc, c, a, rand_val, resp>>

\* app.py:259: the flag is read again for the response
StressReturn(t) ==
    /\ pc[t] = "stress_return"
    /\ resp' = [resp EXCEPT ![t] =
                  [op |-> "stress", status |-> 200, active |-> stress_test_active,
                   stored |-> local[t].flag, nth |-> hist.toggles + 1]]
    /\ pc' = [pc EXCEPT ![t] = "done"]
    /\ hist' = [hist EXCEPT !.toggles = @ + 1]
    /\ UNCHANGED <<stress_test_active, HTTP_CODE_COUNTER, USER_ACTIONS, UPTIME_GAUGE,
                   start_time, clock, stdout, wpc, c, a, rand_val, local>>

\* app.py:261-263
handle_metrics(t) ==
    /\ Begin(t)
    /\ resp' = [resp EXCEPT ![t] =
                  [op |-> "metrics", status |-> 200, body |-> generate_latest]]
    /\ pc' = [pc EXCEPT ![t] = "done"]
    /\ hist' = [hist EXCEPT !.reqs = @ + 1]
    /\ UNCHANGED <<stress_test_active, HTTP_CODE_COUNTER, USER_ACTIONS, UPTIME_GAUGE,
                   start_time, clock, stdout, wpc, c, a, rand_val, local>>

\* the server sends the response; the thread is free for the next request
Respond(t) ==
    /\ pc[t] = "done"
    /\ pc' = [pc EXCEPT ![t] = "idle"]
    /\ local' = [local EXCEPT ![t] = NoLocal]
    /\ resp' = [resp EXCEPT ![t] = NoResp]
    /\ UNCHANGED <<stress_test_active, HTTP_CODE_COUNTER, USER_ACTIONS, UPTIME_GAUGE,
                   start_time, clock, stdout, wpc, c, a, rand_val, hist>>

handle_status(t, Codes) == StatusInc(t, Codes) \/ StatusReturn(t)
handle_action(t, Actions) == ActionInc(t, Actions) \/ ActionReturn(t)
handle_stress(t, budget) == StressLoad(t, budget) \/ StressStore(t) \/ StressReturn(t)

----------------------------------------------------------------------------
(* The server: every handler on every request thread, beside the worker *)

Next ==
    \/ monitor_worker
    \/ \E t \in Threads :
          \/ index(t)
          \/ handle_log(t, FewLevels)
          \/ handle_status(t, FewCodes)
          \/ handle_action(t, FewActions)
          \/ handle_stress(t, MaxReqs)
          \/ handle_metrics(t)
          \/ Respond(t)

Spec == Init /\ [][Next]_vars

(* The stress generator alone: toggle requests beside the worker, which the *)
(* scheduler runs again and again (a daemon thread that only sleeps)        *)
StressNext ==
    \/ monitor_worker
    \/ \E t \in Threads : handle_stress(t, MaxReqs) \/ Respond(t)

SpecFair == Init /\ [][StressNext]_vars /\ WF_vars(monitor_worker)

(* A client that sends its toggle requests one after the other *)
NoToggleInFlight == \A t \in Threads : pc[t] \notin {"stress_store", "stress_return"}

SeqNext ==
    \/ monitor_worker
    \/ \E t \in Threads :
          \/ NoToggleInFlight /\ StressLoad(t, MaxToggles)
          \/ StressStore(t)
          \/ StressReturn(t)
          \/ Respond(t)

SpecSeq == Init /\ [][SeqNext]_vars

(* The stress generator while time passes *)
TimeNext == StressNext \/ Clock

SpecTime == Init /\ [][TimeNext]_vars

(* GET /status alone, over many code strings *)
StatusNext == \E t \in Threads : handle_status(t, ManyCodes) \/ Respond(t)

SpecStatus == Init /\ [][StatusNext]_vars

(* POST /log alone, over many level strings *)
LogNext == \E t \in Threads : handle_log(t, ManyLevels) \/ Respond(t)

SpecLog == Init /\ [][LogNext]_vars

(* POST /action alone, over known and unknown action names *)
ActionNext == \E t \in Threads : handle_action(t, ManyActions) \/ Respond(t)

SpecAction == Init /\ [][ActionNext]_vars

(* The generator beside a scraper: toggle requests and GET /metrics, no *)
(* GET /status and no POST /action                                       *)
ExportNext ==
    \/ monitor_worker
    \/ \E t \in Threads : handle_stress(t, MaxReqs) \/ handle_metrics(t) \/ Respond(t)

SpecExport == Init /\ [][ExportNext]_vars

----------------------------------------------------------------------------
(* Properties *)

Code404 == S3("4","0","4")
CodeAbc == S3("a","b","c")

Odd(n) == n % 2 = 1

\* the value of a series, 0 when the series does not exist
Reading(m, l) == IF l \in DOMAIN m THEN m[l] ELSE 0

\* C1: every toggle flips the flag exactly once and reports the state it
\* produced: whenever no toggle call is running the flag is Active iff an odd
\* number of toggle calls has returned, and every toggle response carries the
\* value that this very call stored.
C1_EveryToggleFlipsOnce ==
    /\ NoToggleInFlight => (stress_test_active <=> Odd(hist.toggles))
    /\ \A t \in Threads :
          resp[t].op = "stress" => resp[t].active = resp[t].stored

\* C2: no increment is lost: every series of either counter reads exactly
\* the number of increments that handlers and the worker have issued to it.
C2_NoLostIncrement ==
    /\ \A l \in DOMAIN HTTP_CODE_COUNTER :
          HTTP_CODE_COUNTER[l] = Reading(hist.code, l)
    /\ \A l \in DOMAIN USER_ACTIONS :
          USER_ACTIONS[l] = Reading(hist.action, l)
    /\ DOMAIN hist.code \subseteq DOMAIN HTTP_CODE_COUNTER
    /\ DOMAIN hist.action \subseteq DOMAIN USER_ACTIONS

\* a handler and the worker have both incremented the series "404" and "login"
C2_Witness ==
    /\ hist.ticks = 1
    /\ HTTP_CODE_COUNTER[Code404] + USER_ACTIONS["login"] = 3
    /\ HTTP_CODE_COUNTER[Code404] >= 1
    /\ USER_ACTIONS["login"] >= 1
    /\ wpc = "log"

\* a legal HTTP status code: an integer from 100 to 599
LegalStatus(n) == n >= 100 /\ n <= 599

ValidStatusCode(s) == int(s).ok /\ LegalStatus(int(s).val)

\* C3: a code string that is not a valid integer status code is answered
\* with HTTP 400 and the body "Invalid code".
C3_InvalidCodeIs400 ==
    \A t \in Threads :
        (resp[t].op = "status" /\ ~ValidStatusCode(resp[t].code))
            => (resp[t].status = 400 /\ resp[t].text = "Invalid code")

\* the increment of handle_status: thread t takes the step from "idle" to "status"
StatusIncStep(t) == pc[t] = "idle" /\ pc'[t] = "status"

\* the step adds exactly 1 to the series s of the code counter, creating it
\* if need be, and leaves every other series of either counter as it was
OnlyCodeSeriesPlusOne(s) ==
    /\ DOMAIN HTTP_CODE_COUNTER' = DOMAIN HTTP_CODE_COUNTER \cup {s}
    /\ HTTP_CODE_COUNTER'[s] = Reading(HTTP_CODE_COUNTER, s) + 1
    /\ \A l \in DOMAIN HTTP_CODE_COUNTER \ {s} :
          HTTP_CODE_COUNTER'[l] = HTTP_CODE_COUNTER[l]
    /\ USER_ACTIONS' = USER_ACTIONS

ForcedTo200 == { S3("1","0","0"), S3("1","0","1"), S3("3","0","4") }
ForcedValues == { 100, 101, 304 }

\* a string that denotes a legal status code other than 100, 101 and 304
OrdinaryCode(s) == ValidStatusCode(s) /\ int(s).val \notin ForcedValues

\* C4: for a valid status code other than 100, 101 and 304 the response has
\* the submitted code as its HTTP status and names the code in its body, and
\* the request adds exactly 1 to that code's series and changes no other.
C4_ValidCodeIsEchoed ==
    /\ [](\A t \in Threads :
            (resp[t].op = "status" /\ OrdinaryCode(resp[t].code))
                => /\ resp[t].status = int(resp[t].code).val
                   /\ resp[t].text = "HTTP {} recorded"
                   /\ resp[t].arg = resp[t].code)
    /\ [][\A t \in Threads :
            (StatusIncStep(t) /\ OrdinaryCode(local'[t].code_val))
                => OnlyCodeSeriesPlusOne(local'[t].code_val)]_vars

\* "404" was answered with 404 and its series stands at 1
C4_Witness ==
    \E t \in Threads :
        /\ resp[t].op = "status"
        /\ resp[t].code = Code404
        /\ resp[t].status = 404
        /\ HTTP_CODE_COUNTER[Code404] = 1

\* C5: "100", "101" and "304" are answered with HTTP 200, never with the
\* submitted code, the body names the submitted code, and the request still
\* adds exactly 1 to that code's series.
C5_InformationalIs200 ==
    /\ [](\A t \in Threads :
            (resp[t].op = "status" /\ resp[t].code \in ForcedTo200)
                => /\ resp[t].status = 200
                   /\ resp[t].status # int(resp[t].code).val
                   /\ resp[t].text = "HTTP {} recorded"
                   /\ resp[t].arg = resp[t].code)
    /\ [][\A t \in Threads :
            (StatusIncStep(t) /\ local'[t].code_val \in ForcedTo200)
                => OnlyCodeSeriesPlusOne(local'[t].code_val)]_vars

\* "100", "101" and "304" have each been answered, by now or earlier
C5_Witness ==
    /\ \E t \in Threads :
          /\ resp[t].op = "status"
          /\ resp[t].code = S3("3","0","4")
          /\ resp[t].status = 200
    /\ HTTP_CODE_COUNTER[S3("3","0","4")] = 1
    /\ HTTP_CODE_COUNTER[S3("1","0","0")] + HTTP_CODE_COUNTER[S3("1","0","1")] = 1

\* C6: the registry always holds a series for each of the 10 pre-declared
\* codes and the 4 pre-declared actions, each at zero until an increment is
\* issued, and every export lists them all.
C6_PreDeclaredSeriesAlwaysListed ==
    /\ Cardinality(Range(ALL_CODES)) = 10
    /\ Cardinality(Range(ALL_ACTIONS)) = 4
    /\ Range(ALL_CODES) \subseteq DOMAIN HTTP_CODE_COUNTER
    /\ Range(ALL_ACTIONS) \subseteq DOMAIN USER_ACTIONS
    /\ (DOMAIN hist.code = {} /\ DOMAIN hist.action = {})
          => /\ \A l \in Range(ALL_CODES) : HTTP_CODE_COUNTER[l] = 0
             /\ \A l \in Range(ALL_ACTIONS) : USER_ACTIONS[l] = 0
    /\ \A t \in Threads :
          resp[t].op = "metrics"
              => /\ Range(ALL_CODES) \subseteq DOMAIN resp[t].body.codes
                 /\ Range(ALL_ACTIONS) \subseteq DOMAIN resp[t].body.actions

\* an export taken after traffic: a series outside the pre-declared set exists,
\* and the untouched pre-declared series are listed at zero
C6_Witness ==
    \E t \in Threads :
        /\ resp[t].op = "metrics"
        /\ CodeAbc \in DOMAIN resp[t].body.codes
        /\ resp[t].body.codes[Code404] = 0
        /\ resp[t].body.actions["login"] = 0

\* the obligation of C7: both totals exceed their snapshot, or the flag is off
GrownSinceActivation ==
    /\ Total(HTTP_CODE_COUNTER) > hist.snapCode
    /\ Total(USER_ACTIONS) > hist.snapAction

WorkerStep == wpc' # wpc

\* C8 as stated: while the flag is false no step of the worker changes a
\* counter or writes a line.
C8_IdleFlagNoTickEffect ==
    [][(~stress_test_active /\ WorkerStep)
         => UNCHANGED <<HTTP_CODE_COUNTER, USER_ACTIONS, stdout>>]_vars

\* C8, amended: a tick whose read of the flag returned false changes no
\* counter and writes no line; the worker increments and logs only in a tick
\* whose own read of the flag returned true.
C8_IdleReadNoTickEffect ==
    [][(WorkerStep /\ ~hist.seen)
         => UNCHANGED <<HTTP_CODE_COUNTER, USER_ACTIONS, stdout>>]_vars

\* the flag went back to Idle during a tick, which has incremented all the same
C8_Witness ==
    /\ ~stress_test_active
    /\ hist.seen
    /\ wpc = "sleep_active"
    /\ Total(HTTP_CODE_COUNTER) = 1
    /\ Total(USER_ACTIONS) = 1
    /\ Len(stdout) = 1

\* C9: POST /log answers 200 and its confirmation names the level at which
\* the line was emitted.
C9_ConfirmationNamesEmittedLevel ==
    \A t \in Threads :
        resp[t].op = "log"
            => /\ resp[t].status = 200
               /\ resp[t].arg = resp[t].emitted

\* C10 as stated: the first, second and third toggle answer false, true, false.
C10_FalseTrueFalse ==
    \A t \in Threads :
        resp[t].op = "stress" => (resp[t].active <=> ~Odd(resp[t].nth))

\* C10, amended: successive toggles from Idle answer true, false, true, and
\* between toggles the flag is Active iff an odd number of them has returned,
\* so two successive toggles restore the flag.
C10_TrueFalseTrue ==
    /\ \A t \in Threads :
          resp[t].op = "stress" => (resp[t].active <=> Odd(resp[t].nth))
    /\ NoToggleInFlight => (stress_test_active <=> Odd(hist.toggles))

\* the third toggle has answered true
C10_Witness ==
    \E t \in Threads :
        /\ resp[t].op = "stress"
        /\ resp[t].nth = 3
        /\ resp[t].active
        /\ stress_test_active

\* the increment of handle_action: thread t takes the step from "idle" to "action"
ActionIncStep(t) == pc[t] = "idle" /\ pc'[t] = "action"

\* the step adds exactly 1 to the series s of the action counter, creating it
\* if need be, and leaves every other series of either counter as it was
OnlyActionSeriesPlusOne(s) ==
    /\ DOMAIN USER_ACTIONS' = DOMAIN USER_ACTIONS \cup {s}
    /\ USER_ACTIONS'[s] = Reading(USER_ACTIONS, s) + 1
    /\ \A l \in DOMAIN USER_ACTIONS \ {s} : USER_ACTIONS'[l] = USER_ACTIONS[l]
    /\ HTTP_CODE_COUNTER' = HTTP_CODE_COUNTER

\* C11: POST /action accepts every action string: the request adds exactly 1
\* to the series of that very string, creating it when it is new, changes no
\* other series of either counter, and is answered with a 200 confirmation
\* that names the string.
C11_AnyActionIsTracked ==
    /\ [][\A t \in Threads :
            ActionIncStep(t) => OnlyActionSeriesPlusOne(local'[t].act_name)]_vars
    /\ [](\A t \in Threads :
            pc[t] = "action" => local[t].act_name \in DOMAIN USER_ACTIONS)
    /\ [](\A t \in Threads :
            resp[t].op = "action"
                => /\ resp[t].status = 200
                   /\ resp[t].text = "Business Action '{}' tracked"
                   /\ resp[t].arg = local[t].act_name
                   /\ USER_ACTIONS[resp[t].arg] >= 1)

\* an action name outside the pre-declared set has been tracked twice and answered
C11_Witness ==
    \E t \in Threads :
        /\ resp[t].op = "action"
        /\ resp[t].arg = "logout"
        /\ "logout" \notin Range(ALL_ACTIONS)
        /\ USER_ACTIONS["logout"] = 2

\* every series of counter m is still there after the step, with a count at
\* least as large as before
NeverDecreases(m, mNext) ==
    \A l \in DOMAIN m : l \in DOMAIN mNext /\ mNext[l] >= m[l]

\* C12: the count of every label series never decreases: over every step of a
\* handler or of the background loop, in any interleaving, each series of
\* either counter keeps or raises its value, and a series once created is
\* never removed or reset.
C12_CountsNeverDecrease ==
    [][/\ NeverDecreases(HTTP_CODE_COUNTER, HTTP_CODE_COUNTER')
       /\ NeverDecreases(USER_ACTIONS, USER_ACTIONS')]_vars

\* a series created by a request and a pre-declared one raised by the
\* background loop stand side by side with the counts they were given
C12_Witness ==
    /\ CodeAbc \in DOMAIN HTTP_CODE_COUNTER
    /\ HTTP_CODE_COUNTER[CodeAbc] = 1
    /\ hist.ticks = 1
    /\ wpc = "gauge"
    /\ \E l \in Range(ALL_ACTIONS) : USER_ACTIONS[l] >= 1

\* the step adds exactly 1 to the existing series l of counter m and touches
\* no other series of it
ExactlyPlusOne(m, mNext, l) ==
    /\ l \in DOMAIN m
    /\ DOMAIN mNext = DOMAIN m
    /\ mNext[l] = m[l] + 1
    /\ \A k \in DOMAIN m \ {l} : mNext[k] = m[k]

\* the order of the steps of one tick: the two choices, the code increment,
\* the action increment, the log line, the sleep
TickOrder ==
    /\ wpc' = "inc_code" => wpc = "check" /\ stress_test_active
    /\ wpc = "inc_code" => wpc' = "inc_action"
    /\ wpc' = "inc_action" => wpc = "inc_code"
    /\ wpc = "inc_action" => wpc' = "log"
    /\ wpc' = "log" => wpc = "inc_action"
    /\ wpc = "log" => wpc' = "sleep_active"

\* C13: each tick performed while Active increments exactly one status-code
\* series and exactly one action series, each by exactly 1, the code taken
\* from ALL_CODES and the action from ALL_ACTIONS; no step of the background
\* loop creates a series, and no other step of it changes a count.
C13_TickIncrementsOneOfEach ==
    [][WorkerStep =>
        /\ TickOrder
        /\ wpc' = "inc_code"
            => c' \in Range(ALL_CODES) /\ a' \in Range(ALL_ACTIONS)
        /\ wpc \in {"inc_code", "inc_action"} => c' = c /\ a' = a
        /\ wpc = "inc_code"
            => /\ c \in Range(ALL_CODES)
               /\ ExactlyPlusOne(HTTP_CODE_COUNTER, HTTP_CODE_COUNTER', c)
               /\ USER_ACTIONS' = USER_ACTIONS
        /\ wpc = "inc_action"
            => /\ a \in Range(ALL_ACTIONS)
               /\ ExactlyPlusOne(USER_ACTIONS, USER_ACTIONS', a)
               /\ HTTP_CODE_COUNTER' = HTTP_CODE_COUNTER
        /\ wpc \notin {"inc_code", "inc_action"}
            => /\ HTTP_CODE_COUNTER' = HTTP_CODE_COUNTER
               /\ USER_ACTIONS' = USER_ACTIONS]_vars

\* a tick has made both of its increments, on the last code and the last
\* action of the fixed sets
C13_Witness ==
    /\ wpc = "log"
    /\ hist.ticks = 1
    /\ c = ALL_CODES[Len(ALL_CODES)]
    /\ a = ALL_ACTIONS[Len(ALL_ACTIONS)]
    /\ HTTP_CODE_COUNTER[c] = 1
    /\ USER_ACTIONS[a] = 1
    /\ Total(HTTP_CODE_COUNTER) = 1
    /\ Total(USER_ACTIONS) = 1

\* the worker's write of the gauge: its step from "gauge" to "check"
GaugeStep == wpc = "gauge" /\ wpc' # wpc

\* C14: every iteration of the background loop, Idle or Active, sets the
\* uptime gauge exactly once, to the time elapsed since process start, and no
\* other operation writes the gauge; with a clock that never runs backwards
\* the gauge therefore never decreases from one reading to a later one.
C14_GaugeSetOncePerIteration ==
    /\ [][/\ GaugeStep => wpc' = "check" /\ UPTIME_GAUGE' = clock - start_time
          /\ ~GaugeStep => UPTIME_GAUGE' = UPTIME_GAUGE
          /\ WorkerStep /\ wpc' = "gauge" => wpc \in {"sleep_idle", "sleep_active"}
          /\ WorkerStep /\ wpc \in {"sleep_idle", "sleep_active"} => wpc' = "gauge"
          /\ clock' >= clock
          /\ start_time' = start_time
          /\ UPTIME_GAUGE' >= UPTIME_GAUGE]_vars
    /\ [](wpc = "gauge" => ENABLED W_SetGauge)
    /\ [](0 <= UPTIME_GAUGE /\ UPTIME_GAUGE <= clock - start_time)

\* after an Idle iteration and an Active tick the gauge has been set again,
\* to a larger value than before
C14_Witness ==
    /\ wpc = "check"
    /\ stress_test_active
    /\ hist.ticks = 1
    /\ UPTIME_GAUGE = clock - start_time
    /\ UPTIME_GAUGE > 0

\* the log step of a tick: the worker's step from "log" to "sleep_active"
LogStep == wpc = "log" /\ wpc' # wpc

\* the step writes exactly one line, of the given level, that names action
\* act and code code (NoCode when the line names no code)
OneLine(level, act, code) ==
    /\ Len(stdout') = Len(stdout) + 1
    /\ SubSeq(stdout', 1, Len(stdout)) = stdout
    /\ stdout'[Len(stdout')].level = level
    /\ stdout'[Len(stdout')].a = act
    /\ stdout'[Len(stdout')].c = code

\* C15: each Active tick draws one value r in [0,1) (here in hundredths) and
\* writes at most one stress line, whose level depends on r alone: error with
\* the action for r < 0.10, warning with action and code for 0.10 <= r < 0.30,
\* info with the action for 0.30 <= r < 0.60, nothing for r >= 0.60; the
\* action and the code of the line are those the tick has incremented.
C15_LevelIsFunctionOfDraw ==
    /\ [][LogStep =>
            /\ wpc' = "sleep_active"
            /\ rand_val = NoRand
            /\ rand_val' \in 0..99
            /\ rand_val' < 10 => OneLine(ERROR, a, NoCode)
            /\ 10 <= rand_val' /\ rand_val' < 30 => OneLine(WARNING, a, c)
            /\ 30 <= rand_val' /\ rand_val' < 60 => OneLine(INFO, a, NoCode)
            /\ 60 <= rand_val' => stdout' = stdout]_vars
    /\ [][WorkerStep /\ ~LogStep => stdout' = stdout /\ rand_val' \in {rand_val, NoRand}]_vars
    /\ [][(wpc \in {"inc_code", "inc_action", "log"}) => (c' = c /\ a' = a)]_vars
    /\ [][WorkerStep /\ wpc = "inc_code"
            => HTTP_CODE_COUNTER'[c] = HTTP_CODE_COUNTER[c] + 1]_vars
    /\ [][WorkerStep /\ wpc = "inc_action"
            => USER_ACTIONS'[a] = USER_ACTIONS[a] + 1]_vars

\* a draw of exactly 0.10 has produced a warning that names the action and
\* the code the tick has just counted
C15_Witness ==
    /\ wpc = "sleep_active"
    /\ rand_val = 10
    /\ Len(stdout) = 1
    /\ stdout[1].level = WARNING
    /\ stdout[1].a = a
    /\ stdout[1].c = c
    /\ HTTP_CODE_COUNTER[c] = 1
    /\ USER_ACTIONS[a] = 1

\* the answer of handle_status to a string int() rejects
InvalidCodeAnswer(t) ==
    /\ resp[t].op = "status"
    /\ resp[t].status = 400
    /\ resp[t].text = "Invalid code"

\* C16: GET /status increments the series labelled with the submitted string
\* before it validates the string: a request answered with HTTP 400 "Invalid
\* code" has created the series of that string if it was new and has raised
\* it by 1, and the error answer does not take the increment back.
C16_InvalidCodeIsStillCounted ==
    /\ [][\A t \in Threads :
            (StatusIncStep(t) /\ ~int(local'[t].code_val).ok)
                => OnlyCodeSeriesPlusOne(local'[t].code_val)]_vars
    /\ [][\A t \in Threads :
            (pc[t] = "status" /\ pc'[t] = "done")
                => /\ HTTP_CODE_COUNTER' = HTTP_CODE_COUNTER
                   /\ resp'[t].code = local[t].code_val
                   /\ ~int(local[t].code_val).ok => InvalidCodeAnswer(t)']_vars
    /\ [](\A t \in Threads :
            pc[t] = "status"
                => /\ local[t].code_val \in DOMAIN HTTP_CODE_COUNTER
                   /\ HTTP_CODE_COUNTER[local[t].code_val] >= 1)
    /\ [](\A t \in Threads :
            InvalidCodeAnswer(t)
                => /\ ~int(resp[t].code).ok
                   /\ resp[t].code \in DOMAIN HTTP_CODE_COUNTER
                   /\ HTTP_CODE_COUNTER[resp[t].code] >= 1
                   /\ HTTP_CODE_COUNTER[resp[t].code] = hist.code[resp[t].code])

\* "abc" was refused a second time and its series stands at 2
C16_Witness ==
    \E t \in Threads :
        /\ InvalidCodeAnswer(t)
        /\ resp[t].code = CodeAbc
        /\ CodeAbc \notin Range(ALL_CODES)
        /\ HTTP_CODE_COUNTER[CodeAbc] = 2

\* by how much the codes counted in all exceed the actions counted in all
Lead(codes, actions) == Total(codes) - Total(actions)

\* C17: the two increments of an Active tick are separate steps, not one
\* atomic update: with no /status and no /action request the total over all
\* code series equals the total over all action series or exceeds it by
\* exactly 1, the latter exactly between the two increments of a tick, and no
\* step changes both counters.
C17_CodesLeadActionsByAtMostOne ==
    /\ [](Lead(HTTP_CODE_COUNTER, USER_ACTIONS) \in {0, 1})
    /\ [](Lead(HTTP_CODE_COUNTER, USER_ACTIONS) = 1 <=> wpc = "inc_action")
    /\ [][HTTP_CODE_COUNTER' = HTTP_CODE_COUNTER \/ USER_ACTIONS' = USER_ACTIONS]_vars

\* an export taken between the two increments of a tick shows one code more
\* than actions
C17_Witness ==
    \E t \in Threads :
        /\ resp[t].op = "metrics"
        /\ Lead(resp[t].body.codes, resp[t].body.actions) = 1
        /\ wpc = "inc_action"

====
